---- MODULE Spec2Model ----
(***************************************************************************)
(* Model of the mongoquery query builder (package builder) and of its SQL  *)
(* front end (package parser).                                             *)
(*                                                                         *)
(* Go strings are TLA+ strings; a character is a string of length one.     *)
(* A bson.M document is a function from its keys to its values, a bson.D   *)
(* pipeline stage is the record of its single element (Key, Value), a Go   *)
(* slice is a sequence.  Scalars carry their Go type, so that the integer  *)
(* 100, the floating point number 100 and the string "100" differ.         *)
(***************************************************************************)
EXTENDS Integers, Sequences, FiniteSets, TLC

(***************************************************************************)
(* Package strings and strconv, as far as the builder uses them.           *)
(***************************************************************************)

\* The i-th byte of s (1-based), as a string of length one.
At(s, i) == SubSeq(s, i, i)

LowerLetters == "abcdefghijklmnopqrstuvwxyz"
UpperLetters == "ABCDEFGHIJKLMNOPQRSTUVWXYZ"
Digits == "0123456789"

CharsOf(s) == {At(s, i) : i \in 1..Len(s)}

LowerSet == CharsOf(LowerLetters)
UpperSet == CharsOf(UpperLetters)
DigitSet == CharsOf(Digits)

\* unicode.IsSpace on the ASCII range
SpaceSet == {" ", "\t", "\n", "\r", "\f"}

UpperOf == [c \in LowerSet |->
              At(UpperLetters, CHOOSE i \in 1..Len(LowerLetters) : At(LowerLetters, i) = c)]

DigitVal == [c \in DigitSet |-> (CHOOSE i \in 1..Len(Digits) : At(Digits, i) = c) - 1]

\* strings.ToUpper on ASCII, by halves
RECURSIVE ToUpper(_)
ToUpper(s) ==
  IF Len(s) = 0 THEN ""
  ELSE IF Len(s) = 1 THEN (IF s \in LowerSet THEN UpperOf[s] ELSE s)
  ELSE ToUpper(SubSeq(s, 1, Len(s) \div 2)) \o ToUpper(SubSeq(s, Len(s) \div 2 + 1, Len(s)))

HasPrefix(s, prefix) ==
  Len(s) >= Len(prefix) /\ SubSeq(s, 1, Len(prefix)) = prefix

HasSuffix(s, suffix) ==
  Len(s) >= Len(suffix) /\ SubSeq(s, Len(s) - Len(suffix) + 1, Len(s)) = suffix

TrimPrefix(s, prefix) ==
  IF HasPrefix(s, prefix) THEN SubSeq(s, Len(prefix) + 1, Len(s)) ELSE s

TrimSuffix(s, suffix) ==
  IF HasSuffix(s, suffix) THEN SubSeq(s, 1, Len(s) - Len(suffix)) ELSE s

\* strings.Index: the 0-based position of the first occurrence, -1 if none.
Index(s, substr) ==
  LET hits == {i \in 0..(Len(s) - Len(substr)) : SubSeq(s, i + 1, i + Len(substr)) = substr}
  IN  IF hits = {} THEN -1 ELSE CHOOSE i \in hits : \A j \in hits : i <= j

Contains(s, substr) == Index(s, substr) >= 0

\* strings.Trim(s, cutset) for a set of characters; TrimSpace is Trim by white space.
TrimSet(s, cut) ==
  LET keep == {i \in 1..Len(s) : At(s, i) \notin cut}
  IN  IF keep = {} THEN ""
      ELSE SubSeq(s, CHOOSE i \in keep : \A j \in keep : i <= j,
                     CHOOSE i \in keep : \A j \in keep : i >= j)

TrimSpace(s) == TrimSet(s, SpaceSet)

\* strings.Split(s, sep) for a non-empty sep: always at least one part.
RECURSIVE Split(_, _)
Split(s, sep) ==
  LET i == Index(s, sep)
  IN  IF i < 0 THEN <<s>>
      ELSE <<SubSeq(s, 1, i)>> \o Split(SubSeq(s, i + Len(sep) + 1, Len(s)), sep)

\* strings.SplitN(s, sep, 2)
SplitN2(s, sep) ==
  LET i == Index(s, sep)
  IN  IF i < 0 THEN <<s>>
      ELSE <<SubSeq(s, 1, i), SubSeq(s, i + Len(sep) + 1, Len(s))>>

\* strings.Join
RECURSIVE JoinStrings(_, _)
JoinStrings(parts, sep) ==
  IF parts = <<>> THEN ""
  ELSE IF Len(parts) = 1 THEN parts[1]
  ELSE JoinStrings(SubSeq(parts, 1, Len(parts) \div 2), sep) \o sep
         \o JoinStrings(SubSeq(parts, Len(parts) \div 2 + 1, Len(parts)), sep)

\* strings.Fields: the maximal runs of non-space characters.
FieldEnd(t) ==
  LET sp == {i \in 1..Len(t) : At(t, i) \in SpaceSet}
  IN  IF sp = {} THEN Len(t) ELSE (CHOOSE i \in sp : \A j \in sp : i <= j) - 1

RECURSIVE FieldsOf(_)
FieldsOf(t) ==
  IF t = "" THEN <<>>
  ELSE <<SubSeq(t, 1, FieldEnd(t))>> \o FieldsOf(TrimSpace(SubSeq(t, FieldEnd(t) + 1, Len(t))))

Fields(s) == FieldsOf(TrimSpace(s))

AllDigits(s) == s # "" /\ \A i \in 1..Len(s) : At(s, i) \in DigitSet

RECURSIVE DigitsValue(_)
DigitsValue(s) ==
  IF s = "" THEN 0 ELSE 10 * DigitsValue(SubSeq(s, 1, Len(s) - 1)) + DigitVal[At(s, Len(s))]

Unsigned(s) == IF s # "" /\ Head(s) \in {"+", "-"} THEN Tail(s) ELSE s
Negative(s) == s # "" /\ Head(s) = "-"

\* strconv.Atoi / strconv.ParseInt(s, 10, 64): an optional sign and decimal digits.
IsInt(s) == AllDigits(Unsigned(s))
IntOf(s) == IF Negative(s) THEN 0 - DigitsValue(Unsigned(s)) ELSE DigitsValue(Unsigned(s))

\* strconv.ParseFloat(s, 64) on decimal input: [sign] digits [. digits] [e [sign] digits],
\* and the special forms inf, infinity and nan in any letter case.  Hexadecimal
\* floating point literals (0x1p-2) are outside the inputs of this model.
ExpPos(s) == {i \in 1..Len(s) : At(s, i) \in {"e", "E"}}
Mantissa(s) ==
  IF ExpPos(s) = {} THEN s ELSE SubSeq(s, 1, (CHOOSE i \in ExpPos(s) : \A j \in ExpPos(s) : i <= j) - 1)
Exponent(s) ==
  IF ExpPos(s) = {} THEN "0"
  ELSE SubSeq(s, (CHOOSE i \in ExpPos(s) : \A j \in ExpPos(s) : i <= j) + 1, Len(s))
IntPart(m) == IF Index(m, ".") < 0 THEN m ELSE SubSeq(m, 1, Index(m, "."))
FracPart(m) == IF Index(m, ".") < 0 THEN "" ELSE SubSeq(m, Index(m, ".") + 2, Len(m))
\* The digits of a mantissa without its point
MantissaDigits(m) == IntPart(m) \o FracPart(m)

IsDecimalFloat(s) ==
  /\ IsInt(Exponent(Unsigned(s)))
  /\ AllDigits(MantissaDigits(Mantissa(Unsigned(s))))

IsInfinity(s) == ToUpper(Unsigned(s)) \in {"INF", "INFINITY"}
IsNaN(s) == ToUpper(s) = "NAN"
IsFloat(s) == IsDecimalFloat(s) \/ IsInfinity(s) \/ IsNaN(s)

\* m * 10^e without trailing zeros in m, so that 100, 100.0 and 1e2 are one number
RECURSIVE Normal(_, _)
Normal(m, e) ==
  IF m = 0 THEN [m |-> 0, e |-> 0, c |-> "finite"]
  ELSE IF m % 10 = 0 THEN Normal(m \div 10, e + 1)
  ELSE [m |-> m, e |-> e, c |-> "finite"]

FloatOf(s) ==
  IF IsNaN(s) THEN [m |-> 0, e |-> 0, c |-> "NaN"]
  ELSE IF IsInfinity(s) THEN [m |-> 0, e |-> 0, c |-> IF Negative(s) THEN "-Inf" ELSE "+Inf"]
  ELSE Normal(IF Negative(s) THEN 0 - DigitsValue(MantissaDigits(Mantissa(Unsigned(s))))
              ELSE DigitsValue(MantissaDigits(Mantissa(Unsigned(s)))),
              IntOf(Exponent(Unsigned(s))) - Len(FracPart(Mantissa(Unsigned(s)))))

(***************************************************************************)
(* Go and BSON values.                                                     *)
(***************************************************************************)
GoInt(n) == [int |-> n]
GoInt64(n) == [int64 |-> n]
GoFloat64(f) == [float64 |-> f]
GoString(s) == [string |-> s]
GoSlice(a) == [slice |-> a]

\* bson.M{}
EmptyM == [key \in {} |-> GoInt(0)]
\* bson.M{key: value}
M1(key, value) == key :> value
\* m[key] = value on a bson.M: the last write for a key wins
Put(m, key, value) == (key :> value) @@ m
\* bson.D{{Key: key, Value: value}}
Stage(key, value) == [Key |-> key, Value |-> value]

(***************************************************************************)
(* The parsers of conditions, expressions, aggregations and aliases.       *)
(***************************************************************************)
\* A mapper of the comparisons only
mapComparisonToMongo(operator) ==
  CASE operator = "="  -> "$eq"
    [] operator = ">"  -> "$gt"
    [] operator = "<"  -> "$lt"
    [] operator = ">=" -> "$gte"
    [] operator = "<=" -> "$lte"
    [] operator = "!=" -> "$ne"
    [] OTHER -> ""

mapOperatorToMongo(operator) ==
  CASE operator = "="  -> "$eq"
    [] operator = ">"  -> "$gt"
    [] operator = "<"  -> "$lt"
    [] operator = ">=" -> "$gte"
    [] operator = "<=" -> "$lte"
    [] operator = "!=" -> "$ne"
    [] operator = "+"  -> "$add"
    [] operator = "-"  -> "$subtract"
    [] operator = "*"  -> "$multiply"
    [] operator = "/"  -> "$divide"
    [] OTHER -> ""

\* A convertValue that types nothing
convertValueAsString(value) == GoString(value)

convertValue(value) ==
  IF IsInt(value) THEN GoInt(IntOf(value))
  ELSE IF IsFloat(value) THEN GoFloat64(FloatOf(value))
  ELSE GoString(value)

conditionOf(parts) ==
  IF Len(parts) # 3 THEN EmptyM
  ELSE M1(parts[1], M1(mapOperatorToMongo(parts[2]), convertValue(TrimSet(parts[3], {"'"}))))

parseCondition(condition) == conditionOf(Fields(condition))

\* A ParseEach that returns the children last part first
ParseEachReversed(parts) ==
  [i \in 1..Len(parts) |-> parseCondition(TrimSpace(parts[Len(parts) + 1 - i]))]

ParseEach(parts) == [i \in 1..Len(parts) |-> parseCondition(TrimSpace(parts[i]))]

\* A parseConditions that looks for OR first
conditionsOfOrFirst(c) ==
  IF Contains(ToUpper(c), " OR ") THEN M1("$or", GoSlice(ParseEach(Split(c, " OR "))))
  ELSE IF Contains(ToUpper(c), " AND ") THEN M1("$and", GoSlice(ParseEach(Split(c, " AND "))))
  ELSE parseCondition(c)

conditionsOf(c) ==
  IF Contains(ToUpper(c), " AND ") THEN M1("$and", GoSlice(ParseEach(Split(c, " AND "))))
  ELSE IF Contains(ToUpper(c), " OR ") THEN M1("$or", GoSlice(ParseEach(Split(c, " OR "))))
  ELSE parseCondition(c)

parseConditions(conditions) == conditionsOf(TrimSpace(conditions))

\* The character classes of the pattern ([\w\(\)\*]+)\s*([+\-*/><=]+)\s*([\w\(\)\*]+)
OperandSet == LowerSet \cup UpperSet \cup DigitSet \cup {"_", "(", ")", "*"}
OperatorSet == {"+", "-", "*", "/", ">", "<", "="}

\* The length of the longest run of characters of class from position p (1-based) on
RunLen(s, p, class) ==
  LET stop == {i \in p..Len(s) : At(s, i) \notin class}
  IN  IF stop = {} THEN Len(s) - p + 1 ELSE (CHOOSE i \in stop : \A j \in stop : i <= j) - p

\* The ways the pattern matches from position p on: <<p, a, w1, o, w2>>, with the
\* lengths of operand 1, the white space, the operator and the white space before
\* operand 2.
MatchesAt(s, p) ==
  UNION {UNION {UNION {
    {<<p, a, w1, o, w2>> : w2 \in {w \in 0..RunLen(s, p + a + w1 + o, SpaceSet) :
                                     RunLen(s, p + a + w1 + o + w, OperandSet) >= 1}}
      : o \in 1..RunLen(s, p + a + w1, OperatorSet)}
      : w1 \in 0..RunLen(s, p + a, SpaceSet)}
      : a \in 1..RunLen(s, p, OperandSet)}

\* t is tried before u by the matcher: the leftmost position first, and at one
\* position every repetition is greedy
Before(t, u) ==
  \/ t[1] < u[1]
  \/ t[1] = u[1] /\ \E k \in 2..5 : t[k] > u[k] /\ \A j \in 2..(k - 1) : t[j] = u[j]

\* The match t and its three groups; the last operand is as long as it can be
Submatch(s, t) ==
  LET p3 == t[1] + t[2] + t[3] + t[4] + t[5]
  IN  <<SubSeq(s, t[1], p3 + RunLen(s, p3, OperandSet) - 1),
        SubSeq(s, t[1], t[1] + t[2] - 1),
        SubSeq(s, t[1] + t[2] + t[3], t[1] + t[2] + t[3] + t[4] - 1),
        SubSeq(s, p3, p3 + RunLen(s, p3, OperandSet) - 1)>>

FirstSubmatch(s, all) ==
  IF all = {} THEN <<>>
  ELSE Submatch(s, CHOOSE t \in all : \A u \in all : t = u \/ Before(t, u))

\* regexp.FindStringSubmatch: the leftmost match, and at that position the one the
\* greedy repetitions prefer; <<>> when the pattern matches nowhere, else
\* <<whole match, operand 1, operator, operand 2>>.
FindStringSubmatch(s) ==
  FirstSubmatch(s, UNION {MatchesAt(s, p) : p \in 1..Len(s)})

parseOperand(in) ==
  IF IsFloat(in) THEN GoFloat64(FloatOf(in))
  ELSE IF HasPrefix(ToUpper(in), "SUM(")
    THEN M1("$sum", GoString("$" \o TrimSuffix(TrimPrefix(in, "SUM("), ")")))
  ELSE IF HasPrefix(ToUpper(in), "COUNT(") THEN M1("$sum", GoInt(1))
  ELSE GoString("$" \o in)

parseFieldOrValue(input) == parseOperand(TrimSpace(input))

\* The result of parseExpression on what the pattern matched: err is "" when it
\* succeeds (Go's nil error).
parseMatches(matches) ==
  IF Len(matches) < 4 THEN [m |-> EmptyM, err |-> "invalid expression format"]
  ELSE IF mapOperatorToMongo(matches[3]) = ""
    THEN [m |-> EmptyM, err |-> "unsupported operator in expression"]
  ELSE [m |-> M1("$expr", M1(mapOperatorToMongo(matches[3]),
                GoSlice(<<parseFieldOrValue(matches[2]), parseFieldOrValue(matches[4])>>))),
        err |-> ""]

parseExpression(expression) == parseMatches(FindStringSubmatch(TrimSpace(expression)))

\* parts[1] of a one-element slice: the index is out of range and Go panics
parseAliasPanics(field) ==
  Contains(ToUpper(field), " AS ") /\ Len(SplitN2(field, " AS ")) < 2

parseAlias(field) ==
  IF Contains(ToUpper(field), " AS ") THEN TrimSpace(SplitN2(field, " AS ")[2]) ELSE field

aggregationOf(f) ==
  IF HasPrefix(ToUpper(f), "SUM(")
    THEN [m |-> M1("$sum", GoString("$" \o TrimSpace(TrimSuffix(TrimPrefix(f, "SUM("), ")")))),
          err |-> ""]
  ELSE IF HasPrefix(ToUpper(f), "COUNT(") THEN [m |-> M1("$sum", GoInt(1)), err |-> ""]
  ELSE [m |-> EmptyM, err |-> "unsupported aggregation function"]

parseAggregation(field) == aggregationOf(TrimSpace(field))

(***************************************************************************)
(* The QueryBuilder of base.go and aggregation.go, with Having and         *)
(* NestedGroupBy.                                                          *)
(* Each method is a function from the builder to the builder it leaves.    *)
(* HavingCond is never written by any method and is left out.              *)
(***************************************************************************)
NewQueryBuilder ==
  [Collection |-> "", Fields |-> <<>>, Group |-> EmptyM, Sort |-> EmptyM,
   LimitVal |-> 0, OffsetVal |-> 0, Pipeline |-> <<>>]

From(q, collection) == [q EXCEPT !.Collection = collection]

Join(q, localField, fromCollection, foreignField, as) ==
  [q EXCEPT !.Pipeline = Append(@, Stage("$lookup",
      [from |-> GoString(fromCollection), localField |-> GoString(localField),
       foreignField |-> GoString(foreignField), as |-> GoString(as)]))]

\* A faulty Limit: it emits its stage at the call, as AggregationLimit does
LimitAtCall(q, limit) ==
  [q EXCEPT !.LimitVal = limit, !.Pipeline = Append(@, Stage("$limit", GoInt64(limit)))]

Limit(q, limit) == [q EXCEPT !.LimitVal = limit]

Offset(q, offset) == [q EXCEPT !.OffsetVal = offset]

RECURSIVE buildProjectionOf(_)
buildProjectionOf(fields) ==
  IF fields = <<>> THEN EmptyM
  ELSE Put(buildProjectionOf(SubSeq(fields, 1, Len(fields) - 1)), fields[Len(fields)], GoInt(1))

buildProjection(q) == buildProjectionOf(q.Fields)

\* A faulty Select: the projection holds only the fields of this call
SelectOnlyGiven(q, fields) ==
  [q EXCEPT !.Fields = @ \o fields,
            !.Pipeline = Append(@, Stage("$project", buildProjectionOf(fields)))]

Select(q, fields) ==
  LET q1 == [q EXCEPT !.Fields = @ \o fields]
  IN  [q1 EXCEPT !.Pipeline = Append(@, Stage("$project", buildProjection(q1)))]

\* The filter of Match and Having: the expression parser, else the condition parser
Filter(condition) ==
  LET filters == {IF e.err # "" THEN parseConditions(condition) ELSE e.m :
                    e \in {parseExpression(condition)}}
  IN  CHOOSE filter \in filters : TRUE

\* A faulty Match: it leaves out the stage of an empty filter
MatchUnlessEmpty(q, condition) ==
  IF Filter(condition) = EmptyM THEN q
  ELSE [q EXCEPT !.Pipeline = Append(@, Stage("$match", Filter(condition)))]

Match(q, condition) ==
  [q EXCEPT !.Pipeline = Append(@, Stage("$match", Filter(condition)))]

Having(q, condition) ==
  [q EXCEPT !.Pipeline = Append(@, Stage("$match", Filter(condition)))]

\* A faulty GroupBy: a Group stage already at the end of the pipeline is replaced
GroupByInPlace(q, field) ==
  LET group == M1("_id", GoString("$" \o field))
      kept == IF q.Pipeline # <<>> /\ q.Pipeline[Len(q.Pipeline)].Key = "$group"
                THEN SubSeq(q.Pipeline, 1, Len(q.Pipeline) - 1) ELSE q.Pipeline
  IN  [q EXCEPT !.Group = group, !.Pipeline = Append(kept, Stage("$group", group))]

GroupBy(q, field) ==
  LET group == M1("_id", GoString("$" \o field))
  IN  [q EXCEPT !.Group = group, !.Pipeline = Append(@, Stage("$group", group))]

\* The loop of NestedGroupBy over the aggregations, from nestedGroup on
RECURSIVE nestedGroupOf(_, _)
nestedGroupOf(nestedGroup, aggregations) ==
  IF aggregations = <<>> THEN nestedGroup
  ELSE LET agg == Head(aggregations)
       IN  nestedGroupOf(IF parseAggregation(agg).err # "" THEN nestedGroup
                         ELSE Put(nestedGroup, parseAlias(agg), parseAggregation(agg).m),
                         Tail(aggregations))

NestedGroupByPanics(aggregations) ==
  \E i \in 1..Len(aggregations) : parseAliasPanics(aggregations[i])

NestedGroupBy(q, field, aggregations) ==
  [q EXCEPT !.Pipeline = Append(@, Stage("$group",
      nestedGroupOf(M1("_id", GoString("$" \o field)), aggregations)))]

OrderBy(q, order) ==
  LET parts == Split(order, " ")
      sort == IF Len(parts) = 2
                THEN M1(parts[1], GoInt(IF ToUpper(parts[2]) = "DESC" THEN -1 ELSE 1))
                ELSE EmptyM
  IN  [q EXCEPT !.Sort = sort, !.Pipeline = Append(@, Stage("$sort", sort))]

\* A faulty AggregationLimit: it tests n >= 0
AggregationLimitFromZero(q, n) ==
  IF n >= 0 THEN [q EXCEPT !.LimitVal = n, !.Pipeline = Append(@, Stage("$limit", GoInt64(n)))]
  ELSE q

AggregationLimit(q, n) ==
  IF n > 0 THEN [q EXCEPT !.LimitVal = n, !.Pipeline = Append(@, Stage("$limit", GoInt64(n)))]
  ELSE q

AggregationOffset(q, n) ==
  IF n > 0 THEN [q EXCEPT !.Pipeline = Append(@, Stage("$skip", GoInt64(n)))]
  ELSE q

\* A faulty Execute: the collection is tested after the deferred stages are appended
ExecuteChecksLate(q) ==
  LET q1 == IF q.OffsetVal > 0
              THEN [q EXCEPT !.Pipeline = Append(@, Stage("$skip", GoInt64(q.OffsetVal)))]
              ELSE q
      q2 == IF q1.LimitVal > 0
              THEN [q1 EXCEPT !.Pipeline = Append(@, Stage("$limit", GoInt64(q1.LimitVal)))]
              ELSE q1
  IN  IF q.Collection = ""
        THEN [qb |-> q2, err |-> "collection is not specified", aggregate |-> <<>>]
        ELSE [qb |-> q2, err |-> "",
              aggregate |-> <<[collection |-> q2.Collection, pipeline |-> q2.Pipeline]>>]

\* A faulty Execute: the deferred limit is emitted before the deferred offset
ExecuteLimitFirst(q) ==
  IF q.Collection = ""
    THEN [qb |-> q, err |-> "collection is not specified", aggregate |-> <<>>]
    ELSE LET q1 == IF q.LimitVal > 0
                     THEN [q EXCEPT !.Pipeline = Append(@, Stage("$limit", GoInt64(q.LimitVal)))]
                     ELSE q
             q2 == IF q1.OffsetVal > 0
                     THEN [q1 EXCEPT !.Pipeline = Append(@, Stage("$skip", GoInt64(q1.OffsetVal)))]
                     ELSE q1
         IN  [qb |-> q2, err |-> "",
              aggregate |-> <<[collection |-> q2.Collection, pipeline |-> q2.Pipeline]>>]

\* Execute up to and including the call of collection.Aggregate: the builder it
\* leaves, the error it returns before reaching the store ("" for none), and what
\* it hands to the store (nothing, or one collection and pipeline).
Execute(q) ==
  IF q.Collection = ""
    THEN [qb |-> q, err |-> "collection is not specified", aggregate |-> <<>>]
    ELSE LET q1 == IF q.OffsetVal > 0
                     THEN [q EXCEPT !.Pipeline = Append(@, Stage("$skip", GoInt64(q.OffsetVal)))]
                     ELSE q
             q2 == IF q1.LimitVal > 0
                     THEN [q1 EXCEPT !.Pipeline = Append(@, Stage("$limit", GoInt64(q1.LimitVal)))]
                     ELSE q1
         IN  [qb |-> q2, err |-> "",
              aggregate |-> <<[collection |-> q2.Collection, pipeline |-> q2.Pipeline]>>]

(***************************************************************************)
(* SQLParser: the SQL front end.                                           *)
(***************************************************************************)
\* What extractFields returns: the fields and the rest of the query
extractFields(parts) ==
  IF ToUpper(parts[1]) # "SELECT" THEN [fields |-> <<>>, rest |-> JoinStrings(parts, " ")]
  ELSE LET rest == JoinStrings(Tail(parts), " ")
           fromIndex == Index(ToUpper(rest), " FROM ")
           fields == IF fromIndex # -1 THEN Split(SubSeq(rest, 1, fromIndex), ",") ELSE <<>>
       IN  [fields |-> [i \in 1..Len(fields) |-> TrimSpace(fields[i])],
            rest |-> IF fromIndex # -1 THEN SubSeq(rest, fromIndex + Len(" FROM ") + 1, Len(rest))
                     ELSE rest]

\* parts[1] of a one-element slice: the index is out of range and Go panics
extractCollectionPanics(query) == Len(SplitN2(query, " ")) < 2

extractCollection(query) ==
  [collection |-> SplitN2(query, " ")[1], rest |-> SplitN2(query, " ")[2]]

Keywords == <<"WHERE", "GROUP BY", "HAVING", "ORDER BY", "LIMIT">>

\* The position of the first keyword of the list that occurs, not of the keyword
\* that occurs first
findNextKeyword(query) ==
  LET found == {k \in 1..Len(Keywords) : Index(ToUpper(query), Keywords[k]) # -1}
  IN  IF found = {} THEN -1
      ELSE Index(ToUpper(query), Keywords[CHOOSE k \in found : \A j \in found : k <= j])

extractClause(keyword, query) ==
  LET keywordIndex == Index(ToUpper(query), keyword)
      remaining == SubSeq(query, keywordIndex + Len(keyword) + 1, Len(query))
      nextKeywordIndex == findNextKeyword(remaining)
  IN  IF keywordIndex = -1 THEN [clause |-> "", remaining |-> query]
      ELSE IF nextKeywordIndex = -1 THEN [clause |-> TrimSpace(remaining), remaining |-> ""]
      ELSE [clause |-> TrimSpace(SubSeq(remaining, 1, nextKeywordIndex)),
            remaining |-> TrimSpace(SubSeq(remaining, nextKeywordIndex + 1, Len(remaining)))]

\* parseLimit: strconv.ParseInt(limit, 10, 64)
parseLimit(limit) ==
  IF IsInt(limit) THEN [limit |-> IntOf(limit), err |-> ""]
  ELSE [limit |-> 0, err |-> "invalid LIMIT value"]

\* The clauses of ParseSQL in its order; st is the builder and the rest of the query
ParseWhere(st) ==
  IF Contains(ToUpper(st.rest), "WHERE")
    THEN [qb |-> Match(st.qb, TrimSpace(extractClause("WHERE", st.rest).clause)),
          rest |-> extractClause("WHERE", st.rest).remaining]
    ELSE st

ParseGroupBy(st) ==
  IF Contains(ToUpper(st.rest), "GROUP BY")
    THEN [qb |-> GroupBy(st.qb, TrimSpace(extractClause("GROUP BY", st.rest).clause)),
          rest |-> extractClause("GROUP BY", st.rest).remaining]
    ELSE st

\* A ParseSQL that leaves the HAVING clause out
ParseHavingSkipped(st) == st

ParseHaving(st) ==
  IF Contains(ToUpper(st.rest), "HAVING")
    THEN [qb |-> Having(st.qb, TrimSpace(extractClause("HAVING", st.rest).clause)),
          rest |-> extractClause("HAVING", st.rest).remaining]
    ELSE st

ParseOrderBy(st) ==
  IF Contains(ToUpper(st.rest), "ORDER BY")
    THEN [qb |-> OrderBy(st.qb, TrimSpace(extractClause("ORDER BY", st.rest).clause)),
          rest |-> extractClause("ORDER BY", st.rest).remaining]
    ELSE st

\* The nil *QueryBuilder
Nil == [nil |-> TRUE]

ParseLimit(st) ==
  IF Contains(ToUpper(st.rest), "LIMIT")
    THEN LET l == parseLimit(TrimSpace(extractClause("LIMIT", st.rest).clause))
         IN  IF l.err # "" THEN [qb |-> Nil, err |-> l.err]
             ELSE [qb |-> Limit(st.qb, l.limit), err |-> ""]
    ELSE [qb |-> st.qb, err |-> ""]

\* What ParseSQL returns: the builder (Nil for none) and the error or panic.
\* The clauses apply in the order of the code, each to the one result of the one
\* before it.
ParseSQL(query) ==
  LET f == {extractFields(Split(TrimSpace(query), " "))}
      s0 == {IF extractCollectionPanics(x.rest) THEN Nil
             ELSE [qb |-> [NewQueryBuilder EXCEPT !.Fields = x.fields,
                                                 !.Collection = extractCollection(x.rest).collection],
                   rest |-> extractCollection(x.rest).rest] : x \in f}
      s1 == {IF st = Nil THEN Nil ELSE ParseWhere(st) : st \in s0}
      s2 == {IF st = Nil THEN Nil ELSE ParseGroupBy(st) : st \in s1}
      s3 == {IF st = Nil THEN Nil ELSE ParseHaving(st) : st \in s2}
      s4 == {IF st = Nil THEN Nil ELSE ParseOrderBy(st) : st \in s3}
      r == {IF st = Nil THEN [qb |-> Nil, err |-> "panic: index out of range"]
            ELSE ParseLimit(st) : st \in s4}
  IN  CHOOSE result \in r : TRUE

(***************************************************************************)
(* InsertBuilder, insert.go.                                               *)
(***************************************************************************)
NewInsertBuilder == [Collection |-> "", Fields |-> <<>>, ValuesList |-> <<>>]

InsertInto(b, collection, fields) == [b EXCEPT !.Collection = collection, !.Fields = fields]

\* A Values that adds the row whatever its length
ValuesNeverPanics(b, values) == FALSE

ValuesPanics(b, values) == Len(values) # Len(b.Fields)

\* Values where it does not panic
Values(b, values) == [b EXCEPT !.ValuesList = Append(@, values)]

\* row[i] of a row shorter than the fields: the index is out of range and Go panics
InsertExecutePanics(b) ==
  b.Collection # "" /\ \E r \in 1..Len(b.ValuesList) : Len(b.ValuesList[r]) < Len(b.Fields)

\* The document of a row: each field with the value at its index, the last index
\* of a field named twice
DocumentOf(fields, row) ==
  [f \in {fields[i] : i \in 1..Len(fields)} |->
     row[CHOOSE i \in 1..Len(fields) :
           fields[i] = f /\ \A j \in 1..Len(fields) : fields[j] = f => j <= i]]

\* What InsertBuilder.Execute returns where it does not panic: the documents it
\* handed to InsertOne or InsertMany and its error
InsertExecute(b, storeErr) ==
  LET documents == [r \in 1..Len(b.ValuesList) |-> DocumentOf(b.Fields, b.ValuesList[r])]
  IN  IF b.Collection = "" THEN [documents |-> <<>>, err |-> "collection name is not specified"]
      ELSE IF Len(documents) = 0 THEN [documents |-> <<>>, err |-> "no documents to insert"]
      ELSE IF storeErr # ""
        THEN [documents |-> documents,
              err |-> (IF Len(documents) = 1 THEN "failed to insert document: "
                       ELSE "failed to insert documents: ") \o storeErr]
      ELSE [documents |-> documents, err |-> ""]

(***************************************************************************)
(* The state: one QueryBuilder and the store it executes against.          *)
(***************************************************************************)
VARIABLES
  qb,         \* the QueryBuilder
  handed,     \* what Execute handed to collection.Aggregate so far, in order
  err,        \* the error or panic of the last call, "" for none
  parsed,     \* history: the last call of a method that parses a text
  example,    \* history: how many calls of the README's pagination example were
              \* made so far, in its order and with no other call; -1 once off it
  limitArg,   \* history: the argument of the last call of Limit, 0 before any
  ib,         \* the InsertBuilder
  returned    \* what the last call of a function of the package, or of
              \* InsertBuilder.Execute, returned: the function, its argument, the value

vars == <<qb, handed, err, parsed, example, limitArg, ib, returned>>

\* A call: the method, its string, its number and its list of strings
Call(op, s, n, l) == [op |-> op, s |-> s, n |-> n, l |-> l]

\* README.md, "3. SELECT with Offset for Pagination", with Match for its Where,
\* which the QueryBuilder does not have
ReadmeExample ==
  << Call("Select", "", 0, <<"field1", "field2">>),
     Call("From", "orders", 0, <<>>),
     Call("Match", "status = 'active'", 0, <<>>),
     Call("OrderBy", "field1 ASC", 0, <<>>),
     Call("Limit", "", 10, <<>>),
     Call("Offset", "", 20, <<>>),
     Call("Execute", "", 0, <<>>) >>

ParsingMethods == {"Match", "Having", "OrderBy", "NestedGroupBy", "ParseSQL"}

History(call) ==
  /\ parsed' = IF call.op \in ParsingMethods THEN call ELSE parsed
  /\ example' = IF example >= 0 /\ example < Len(ReadmeExample) /\ ReadmeExample[example + 1] = call
                  THEN example + 1 ELSE -1
  /\ limitArg' = IF call.op = "Limit" THEN call.n ELSE limitArg
  /\ UNCHANGED <<ib, returned>>

\* The bounds of the model: the stages the clause-setting calls may append, and the
\* calls of Execute that reach the store
MaxStages == 3
MaxExecutes == 2

FromArgs == {"orders", ""}
SelectArgs == {<<"field1", "field2">>}
MatchArgs == {"status = 'active'"}
HavingArgs == {"SUM(amount) > 5000"}
GroupByArgs == {"region"}
NestedGroupByArgs == {<<"SUM(amount) AS total", "COUNT(*) AS cnt">>}
OrderByArgs == {"field1 ASC"}
LimitArgs == {0, 10}
OffsetArgs == {0, 20}
AggregationLimitArgs == {-1, 0, 5}
AggregationOffsetArgs == {-1, 0, 7}

Init ==
  /\ qb = NewQueryBuilder
  /\ handed = <<>>
  /\ err = ""
  /\ parsed = Call("", "", 0, <<>>)
  /\ example = 0
  /\ limitArg = 0
  /\ ib = NewInsertBuilder
  /\ returned = [fn |-> "", arg |-> "", value |-> ""]

\* The builder is built and then executed: once a pipeline was handed to the store
\* the model follows only further calls of Execute.
Building == handed = <<>>

Room == Building /\ Len(qb.Pipeline) < MaxStages

\* A call of a method that returns the builder q
Chained(q, call) ==
  /\ qb' = q
  /\ err' = ""
  /\ UNCHANGED handed
  /\ History(call)

CallFrom(collection) ==
  /\ Building
  /\ Chained(From(qb, collection), Call("From", collection, 0, <<>>))

CallSelect(fields) ==
  /\ Room
  /\ Chained(Select(qb, fields), Call("Select", "", 0, fields))

CallJoin(localField, fromCollection, foreignField, as) ==
  /\ Room
  /\ Chained(Join(qb, localField, fromCollection, foreignField, as),
             Call("Join", "", 0, <<localField, fromCollection, foreignField, as>>))

CallMatch(condition) ==
  /\ Room
  /\ Chained(Match(qb, condition), Call("Match", condition, 0, <<>>))

CallHaving(condition) ==
  /\ Room
  /\ Chained(Having(qb, condition), Call("Having", condition, 0, <<>>))

CallGroupBy(field) ==
  /\ Room
  /\ Chained(GroupBy(qb, field), Call("GroupBy", field, 0, <<>>))

CallNestedGroupBy(field, aggregations) ==
  /\ Room
  /\ IF NestedGroupByPanics(aggregations)
       THEN /\ err' = "panic: index out of range"
            /\ UNCHANGED <<qb, handed>>
            /\ History(Call("NestedGroupBy", field, 0, aggregations))
       ELSE Chained(NestedGroupBy(qb, field, aggregations),
                    Call("NestedGroupBy", field, 0, aggregations))

CallOrderBy(order) ==
  /\ Room
  /\ Chained(OrderBy(qb, order), Call("OrderBy", order, 0, <<>>))

CallLimit(limit) ==
  /\ Building
  /\ Chained(Limit(qb, limit), Call("Limit", "", limit, <<>>))

CallOffset(offset) ==
  /\ Building
  /\ Chained(Offset(qb, offset), Call("Offset", "", offset, <<>>))

CallAggregationLimit(n) ==
  /\ Room
  /\ Chained(AggregationLimit(qb, n), Call("AggregationLimit", "", n, <<>>))

CallAggregationOffset(n) ==
  /\ Room
  /\ Chained(AggregationOffset(qb, n), Call("AggregationOffset", "", n, <<>>))

\* Execute: the store answers the aggregation or fails it
CallExecute(storeErr) ==
  /\ qb # Nil
  /\ Len(handed) < MaxExecutes
  /\ qb' = Execute(qb).qb
  /\ handed' = handed \o Execute(qb).aggregate
  /\ err' = IF Execute(qb).err # "" THEN Execute(qb).err ELSE storeErr
  /\ History(Call("Execute", "", 0, <<>>))

Next ==
  \/ \E collection \in FromArgs : CallFrom(collection)
  \/ \E fields \in SelectArgs : CallSelect(fields)
  \/ CallJoin("customer_id", "customers", "_id", "customer")
  \/ \E condition \in MatchArgs : CallMatch(condition)
  \/ \E condition \in HavingArgs : CallHaving(condition)
  \/ \E field \in GroupByArgs : CallGroupBy(field)
  \/ \E field \in GroupByArgs, aggregations \in NestedGroupByArgs :
       CallNestedGroupBy(field, aggregations)
  \/ \E order \in OrderByArgs : CallOrderBy(order)
  \/ \E limit \in LimitArgs : CallLimit(limit)
  \/ \E offset \in OffsetArgs : CallOffset(offset)
  \/ \E n \in AggregationLimitArgs : CallAggregationLimit(n)
  \/ \E n \in AggregationOffsetArgs : CallAggregationOffset(n)
  \/ \E storeErr \in {"", "aggregate failed"} : CallExecute(storeErr)

Spec == Init /\ [][Next]_vars

(***************************************************************************)
(* The parsers on their own: one call of a parsing method on a new         *)
(* builder, on texts put together from the parts below, and its Execute.   *)
(***************************************************************************)
\* The bounds of the texts: the comparisons of a condition, the aggregations of a
\* NestedGroupBy
MaxComparisons == 3
MaxAggregations == 2

CondFields == {"price", "status"}
CondOperators == {"=", ">", ">=", "LIKE"}
CondValues == {"100", "4.5", "'active'"}
Comparisons == {f \o " " \o o \o " " \o v : f \in CondFields, o \in CondOperators, v \in CondValues}

\* The comparisons that conditions of several comparisons are made of
NumberComparisons == {"price > 100", "stock > 50", "rating >= 4.5"}
ChainComparisons == NumberComparisons \cup {"status = 'active'"}
Connectives == {" AND ", " OR "}

\* The conditions of n comparisons: any comparison first, then a connective and one
\* of two comparisons, n - 1 times
RECURSIVE Chains(_)
Chains(n) ==
  IF n = 1 THEN ChainComparisons
  ELSE {c \o k \o d : c \in Chains(n - 1), k \in Connectives,
                      d \in {"stock > 50", "status = 'active'"}}

\* A AND (B OR C)
Grouped ==
  {a \o " AND (" \o b \o " OR " \o c \o ")" :
     a \in NumberComparisons, b \in NumberComparisons, c \in NumberComparisons}

Malformed ==
  {"", " ", "price", "price >", "price > 100 extra", "price>100", "price == 100",
   "price => 100", "name LIKE x", "price > 100 and stock > 50", "SUM(amount) > 5000",
   "SUM(amount) / COUNT(*) > 1000", "status = 'a' AND kind = 'b'"}

Conditions ==
  Comparisons \cup UNION {Chains(n) : n \in 2..MaxComparisons} \cup Grouped \cup Malformed

Orders ==
  {f \o sep \o d : f \in {"field1", "total"}, sep \in {" ", "  ", "\t"},
                   d \in {"ASC", "DESC", "desc", "Desc", "asc", "down"}}
  \cup {"field1", "", "field1 ", "field1 DESC NULLS"}

Aggregations ==
  {"SUM(amount) AS total", "COUNT(*) AS cnt", "MAX(x) AS m", "SUM(amount)", "COUNT(*)",
   "sum(amount) AS total", "SUM(amount) as total", "SUM(amount) AS _id", "AVG(x)"}

RECURSIVE Lists(_, _)
Lists(S, n) ==
  IF n = 0 THEN {<<>>} ELSE Lists(S, n - 1) \cup {Append(l, x) : l \in Lists(S, n - 1), x \in S}

Statements ==
  {sel \o " FROM orders" \o w \o g \o h \o o \o l :
     sel \in {"SELECT field1, field2", "select total"},
     w \in {"", " WHERE status = 'active'", " where price > 100"},
     g \in {"", " GROUP BY region"},
     h \in {"", " HAVING SUM(amount) > 5000"},
     o \in {"", " ORDER BY field1 ASC", " order by total desc"},
     l \in {"", " LIMIT 10", " LIMIT 0", " LIMIT 10 OFFSET 20", " LIMIT ten", " limit -1"}}
  \cup {"SELECT total FROM orders ORDER BY total DESC WHERE price > 100",
        "SELECT total FROM orders LIMIT 10 GROUP BY region"}

\* No parsing method was called yet
Fresh == parsed.op = ""

CallParseSQL(query) ==
  /\ qb' = ParseSQL(query).qb
  /\ err' = ParseSQL(query).err
  /\ UNCHANGED handed
  /\ History(Call("ParseSQL", query, 0, <<>>))

NextParse ==
  \/ \E condition \in Conditions : Fresh /\ CallMatch(condition)
  \/ \E condition \in Conditions : Fresh /\ CallHaving(condition)
  \/ \E order \in Orders : Fresh /\ CallOrderBy(order)
  \/ \E aggregations \in Lists(Aggregations, MaxAggregations) :
       Fresh /\ CallNestedGroupBy("region", aggregations)
  \/ \E query \in Statements : Fresh /\ CallParseSQL(query)
  \/ \E storeErr \in {"", "aggregate failed"} : CallExecute(storeErr)

SpecParse == Init /\ [][NextParse]_vars
(***************************************************************************)
(* The builder's finalization, checked on Spec.                            *)
(***************************************************************************)
\* The stages Execute appends for a recorded offset and a recorded limit
Deferred(offset, limit) ==
  (IF offset > 0 THEN <<Stage("$skip", GoInt64(offset))>> ELSE <<>>)
    \o (IF limit > 0 THEN <<Stage("$limit", GoInt64(limit))>> ELSE <<>>)

\* The last stages of a pipeline, at most n of them
LastStages(pipeline, n) ==
  SubSeq(pipeline, IF Len(pipeline) > n THEN Len(pipeline) - n + 1 ELSE 1, Len(pipeline))

\* C1: on a builder with a collection whose last Offset(o) and last Limit(l) had
\* o > 0 and l > 0, whatever other clause-setting calls were made, the pipeline that
\* the first Execute hands to the store ends with Skip(o), Limit(l).  Only Offset
\* writes OffsetVal, so qb.OffsetVal is the argument of the last Offset.
C1_SkipThenLimitLast ==
  (Len(handed) >= 1 /\ qb.OffsetVal > 0 /\ limitArg > 0)
    => LastStages(handed[1].pipeline, 2) = Deferred(qb.OffsetVal, limitArg)

\* README.md, the pipeline its pagination example documents
ReadmePipeline ==
  << Stage("$project", Put(M1("field1", GoInt(1)), "field2", GoInt(1))),
     Stage("$match", M1("status", M1("$eq", GoString("active")))),
     Stage("$sort", M1("field1", GoInt(1))),
     Stage("$skip", GoInt64(20)),
     Stage("$limit", GoInt64(10)) >>

C10_DeferredLimitOffset ==
  [][/\ \A limit \in LimitArgs :
          CallLimit(limit) => /\ qb' = [qb EXCEPT !.LimitVal = limit]
                              /\ qb'.Pipeline = qb.Pipeline
     /\ \A offset \in OffsetArgs :
          CallOffset(offset) => /\ qb' = [qb EXCEPT !.OffsetVal = offset]
                                /\ qb'.Pipeline = qb.Pipeline
     /\ (handed = <<>> /\ handed' # <<>>)
          => /\ Len(handed') = 1
             /\ handed'[1].pipeline = qb.Pipeline \o Deferred(qb.OffsetVal, qb.LimitVal)]_vars

\* Limit was called twice, Offset was called, and the one Skip and the one Limit of
\* the last values were handed to the store
C10_Witness ==
  /\ Len(handed) = 1
  /\ limitArg = 10
  /\ handed[1].pipeline = <<Stage("$skip", GoInt64(20)), Stage("$limit", GoInt64(10))>>

(***************************************************************************)
(* The parsers, checked on SpecParse: parsed is the one parsing call made  *)
(* on the new builder.                                                     *)
(***************************************************************************)
\* README.md, the statement of its pagination example
PaginationStatement ==
  "SELECT field1, field2 FROM orders WHERE status = 'active' ORDER BY field1 ASC LIMIT 10 OFFSET 20"

\* C3: ParseSQL of the pagination statement succeeds, and the builder it returns
\* hands the store the stages Project{field1, field2}, Match{status eq "active"},
\* Sort{field1: 1}, Skip(20), Limit(10).
C3_StatementCompiles ==
  (parsed.op = "ParseSQL" /\ parsed.s = PaginationStatement)
    => /\ qb # Nil
       /\ err # "invalid LIMIT value"
       /\ handed # <<>> => handed[1].pipeline = ReadmePipeline

\* A condition of two or more number comparisons joined by AND
AndChain(condition) ==
  /\ Len(Split(condition, " AND ")) >= 2
  /\ \A i \in 1..Len(Split(condition, " AND ")) :
       Split(condition, " AND ")[i] \in NumberComparisons

\* The fields a filter constrains: the operands of a computed comparison that are
\* fields, the fields of the comparisons under And and Or, or the field of a
\* comparison
ExprFields(operands) ==
  {SubSeq(operands[i].string, 2, Len(operands[i].string)) :
     i \in {j \in 1..Len(operands) : "string" \in DOMAIN operands[j]}}

Constrained(filter) ==
  IF "$expr" \in DOMAIN filter
    THEN UNION {ExprFields(filter["$expr"][o].slice) : o \in DOMAIN filter["$expr"]}
  ELSE IF "$and" \in DOMAIN filter
    THEN UNION {DOMAIN filter["$and"].slice[i] : i \in 1..Len(filter["$and"].slice)}
  ELSE IF "$or" \in DOMAIN filter
    THEN UNION {DOMAIN filter["$or"].slice[i] : i \in 1..Len(filter["$or"].slice)}
  ELSE DOMAIN filter

\* C4: for a condition of two or more number comparisons joined by AND, Match
\* appends one Match stage whose filter constrains the field of every comparison.
C4_EveryConjunctKept ==
  (parsed.op = "Match" /\ AndChain(parsed.s))
    => /\ Len(qb.Pipeline) = 1
       /\ qb.Pipeline[1].Key = "$match"
       /\ \A part \in {Split(parsed.s, " AND ")[i] : i \in 1..Len(Split(parsed.s, " AND "))} :
            Fields(part)[1] \in Constrained(qb.Pipeline[1].Value)

\* And[A, Or[B, C]]
AndOr(a, b, c) ==
  M1("$and", GoSlice(<<parseCondition(a),
                       M1("$or", GoSlice(<<parseCondition(b), parseCondition(c)>>))>>))

\* C5: for a condition A AND (B OR C) of three comparisons, the filter is
\* And[A, Or[B, C]], whether it comes from Match or from parseConditions alone (the
\* Where of the update and delete builders).
C5_ParenthesesGroup ==
  (parsed.op = "Match" /\ parsed.s \in Grouped)
    => \E a \in NumberComparisons, b \in NumberComparisons, c \in NumberComparisons :
         /\ parsed.s = a \o " AND (" \o b \o " OR " \o c \o ")"
         /\ \/ qb.Pipeline[1].Value = AndOr(a, b, c)
            \/ parseConditions(parsed.s) = AndOr(a, b, c)

\* A call of Match or Having was made in this step
MatchOrHavingStep == parsed' # parsed /\ parsed'.op \in {"Match", "Having"}

\* The step appended one Match stage and nothing failed
OneMatchStage ==
  /\ err' = ""
  /\ Len(qb'.Pipeline) = Len(qb.Pipeline) + 1
  /\ qb' = [qb EXCEPT !.Pipeline =
              Append(qb.Pipeline, Stage("$match", qb'.Pipeline[Len(qb'.Pipeline)].Value))]

\* The condition is no expression match and not of exactly three tokens
NoMatchNotThree(condition) ==
  parseExpression(condition).err # "" /\ Len(Fields(condition)) # 3

\* The condition holds AND or OR as a connective, in any letter case
Connected(condition) ==
  \/ Contains(ToUpper(TrimSpace(condition)), " AND ")
  \/ Contains(ToUpper(TrimSpace(condition)), " OR ")

GroupStage(field, aggregates) ==
  Stage("$group", aggregates @@ M1("_id", GoString("$" \o field)))

\* C7: NestedGroupBy("region", "SUM(amount) AS total", "COUNT(*) AS cnt") appends one
\* Group stage keyed by region with exactly the aggregates total, the sum of the
\* field amount, and cnt, the count of all.
C7_SumOfTheField ==
  (parsed.op = "NestedGroupBy" /\ parsed.l = <<"SUM(amount) AS total", "COUNT(*) AS cnt">>)
    => qb.Pipeline = <<GroupStage(parsed.s, Put(M1("total", M1("$sum", GoString("$amount"))),
                                                "cnt", M1("$sum", GoInt(1))))>>

\* A spec of a supported function: SUM( or COUNT( in any letter case
Supported(agg) ==
  \/ HasPrefix(ToUpper(TrimSpace(agg)), "SUM(")
  \/ HasPrefix(ToUpper(TrimSpace(agg)), "COUNT(")

\* The name a spec is stored under: what follows AS, in any letter case, else the spec
AliasOf(agg) ==
  IF Contains(ToUpper(agg), " AS ")
    THEN TrimSpace(SubSeq(agg, Index(ToUpper(agg), " AS ") + Len(" AS ") + 1, Len(agg)))
    ELSE agg

\* C8: for any list of aggregate specs NestedGroupBy does not abort and appends
\* exactly one Group stage keyed by the field, with one entry for the alias of every
\* supported spec and none for the others.
C8_OneGroupStage ==
  parsed.op = "NestedGroupBy"
    => /\ err # "panic: index out of range"
       /\ Len(qb.Pipeline) = 1
       /\ qb.Pipeline[1].Key = "$group"
       /\ qb.Pipeline[1].Value["_id"] = GoString("$" \o parsed.s)
       /\ DOMAIN qb.Pipeline[1].Value
            = {"_id"} \cup {AliasOf(parsed.l[i]) :
                              i \in {j \in 1..Len(parsed.l) : Supported(parsed.l[j])}}

\* C9: every OrderBy appends exactly one Sort stage, never empty, that sorts on one
\* field: by -1 when the second token is DESC in any letter case, by 1 otherwise,
\* also when the text is not of exactly two tokens.
C9_SortNeverEmpty ==
  parsed.op = "OrderBy"
    => /\ Len(qb.Pipeline) = 1
       /\ qb.Pipeline[1].Key = "$sort"
       /\ qb.Pipeline[1].Value # EmptyM
       /\ \A field \in DOMAIN qb.Pipeline[1].Value :
            qb.Pipeline[1].Value[field]
              = GoInt(IF Len(Fields(parsed.s)) >= 2 /\ ToUpper(Fields(parsed.s)[2]) = "DESC"
                        THEN -1 ELSE 1)

(***************************************************************************)
(* The builder's methods one by one, checked on Spec.                      *)
(***************************************************************************)
\* C11: AggregationLimit(n) and AggregationOffset(n) with n > 0 append exactly one
\* stage, Limit(n) and Skip(n), after the stages already there; with n <= 0 they
\* leave the builder as it is, its pipeline and its recorded limit and offset.
C11_AppendAtCall ==
  [][/\ \A n \in AggregationLimitArgs :
          CallAggregationLimit(n)
            => IF n > 0 THEN qb'.Pipeline = Append(qb.Pipeline, Stage("$limit", GoInt64(n)))
               ELSE qb' = qb
     /\ \A n \in AggregationOffsetArgs :
          CallAggregationOffset(n)
            => IF n > 0 THEN qb'.Pipeline = Append(qb.Pipeline, Stage("$skip", GoInt64(n)))
               ELSE qb' = qb]_vars

\* AggregationOffset(7) and AggregationLimit(5) were called on a builder with no
\* deferred limit from Limit
C11_Witness ==
  /\ handed = <<>>
  /\ limitArg = 0
  /\ qb.Pipeline = <<Stage("$skip", GoInt64(7)), Stage("$limit", GoInt64(5))>>

\* C12: Execute on a builder with no collection returns the error of the missing
\* collection, hands nothing to the store and leaves the builder, its pipeline
\* included, as it is, whatever offset and limit are recorded.
C12_NoCollectionNoEffect ==
  [][(qb # Nil /\ qb.Collection = "" /\ \E storeErr \in {"", "aggregate failed"} : CallExecute(storeErr))
       => /\ err' = "collection is not specified"
          /\ handed' = handed
          /\ qb' = qb]_vars

\* Execute failed for the missing collection with an offset and a limit recorded
C12_Witness ==
  /\ err = "collection is not specified"
  /\ qb.Collection = ""
  /\ qb.OffsetVal = 20
  /\ qb.LimitVal = 10
  /\ handed = <<>>

(***************************************************************************)
(* The clause-setting calls with more than one argument for Select and     *)
(* GroupBy, on pipelines of up to MaxClauses stages.                       *)
(***************************************************************************)
MaxClauses == 2

SelectLists == {<<"field1", "field2">>, <<"field2", "field3">>}
GroupFields == {"region", "city"}

Open == Len(qb.Pipeline) < MaxClauses

NextClauses ==
  \/ \E collection \in FromArgs : CallFrom(collection)
  \/ \E fields \in SelectLists : Open /\ CallSelect(fields)
  \/ Open /\ CallJoin("customer_id", "customers", "_id", "customer")
  \/ \E condition \in MatchArgs : Open /\ CallMatch(condition)
  \/ \E condition \in HavingArgs : Open /\ CallHaving(condition)
  \/ \E field \in GroupFields : Open /\ CallGroupBy(field)
  \/ \E field \in GroupFields, aggregations \in NestedGroupByArgs :
       Open /\ CallNestedGroupBy(field, aggregations)
  \/ \E order \in OrderByArgs : Open /\ CallOrderBy(order)
  \/ \E limit \in LimitArgs : CallLimit(limit)
  \/ \E offset \in OffsetArgs : CallOffset(offset)
  \/ \E n \in AggregationLimitArgs : Open /\ CallAggregationLimit(n)
  \/ \E n \in AggregationOffsetArgs : Open /\ CallAggregationOffset(n)
  \/ \E storeErr \in {"", "aggregate failed"} : CallExecute(storeErr)

SpecClauses == Init /\ [][NextClauses]_vars

\* The elements of a sequence
Range(seq) == {seq[i] : i \in 1..Len(seq)}

\* C13: every Select appends, after the stages already there, exactly one Project
\* stage that includes each field of this and of every earlier Select once; only
\* Select changes the recorded fields, which start empty, so the recorded fields are
\* those of the Select calls so far.
C13_SelectAdditive ==
  [][/\ \A fields \in SelectLists :
          CallSelect(fields)
            => /\ Range(qb'.Fields) = Range(qb.Fields) \cup Range(fields)
               /\ qb'.Pipeline = Append(qb.Pipeline,
                    Stage("$project", [f \in Range(qb.Fields) \cup Range(fields) |-> GoInt(1)]))
     /\ (\A fields \in SelectLists : ~CallSelect(fields)) => qb'.Fields = qb.Fields]_vars

\* Select("field1", "field2") and then Select("field2", "field3")
C13_Witness ==
  /\ qb.Fields = <<"field1", "field2", "field2", "field3">>
  /\ Len(qb.Pipeline) = 2
  /\ DOMAIN qb.Pipeline[1].Value = {"field1", "field2"}
  /\ DOMAIN qb.Pipeline[2].Value = {"field1", "field2", "field3"}

\* The kind of the last stage
LastKey(pipeline) == pipeline[Len(pipeline)].Key

\* C14: while the builder is built, every call leaves the stages already there as
\* they are and appends at most one stage after them, so the stages are in the order
\* of the calls: a call of OrderBy appends a Sort, one of Match or Having a Match,
\* wherever it is made (parsed changes only in a call of a parsing method, to that
\* call); GroupBy appends a Group stage and replaces the recorded group, leaving
\* every earlier Group stage in the pipeline.
C14_AppendOnly ==
  [][handed' = <<>>
       => /\ Len(qb'.Pipeline) \in {Len(qb.Pipeline), Len(qb.Pipeline) + 1}
          /\ SubSeq(qb'.Pipeline, 1, Len(qb.Pipeline)) = qb.Pipeline
          /\ (parsed' # parsed /\ parsed'.op = "OrderBy")
               => Len(qb'.Pipeline) = Len(qb.Pipeline) + 1 /\ LastKey(qb'.Pipeline) = "$sort"
          /\ (parsed' # parsed /\ parsed'.op \in {"Match", "Having"})
               => Len(qb'.Pipeline) = Len(qb.Pipeline) + 1 /\ LastKey(qb'.Pipeline) = "$match"
          /\ \A field \in GroupFields :
               CallGroupBy(field)
                 => qb' = [qb EXCEPT !.Group = M1("_id", GoString("$" \o field)),
                                     !.Pipeline = Append(qb.Pipeline,
                                        Stage("$group", M1("_id", GoString("$" \o field))))]]_vars

\* GroupBy("region") and then GroupBy("city"): both Group stages, the group of city
C14_Witness ==
  /\ qb.Pipeline = <<Stage("$group", M1("_id", GoString("$region"))),
                     Stage("$group", M1("_id", GoString("$city")))>>
  /\ qb.Group = M1("_id", GoString("$city"))

(***************************************************************************)
(* The clauses of a statement, checked on SpecParse.                       *)
(***************************************************************************)
StageKeys(pipeline) == [i \in 1..Len(pipeline) |-> pipeline[i].Key]

\* The stage of each keyword of Keywords
ClauseStageKeys == <<"$match", "$group", "$match", "$sort", "$limit">>

ClausePresent(statement, k) == Contains(ToUpper(statement), Keywords[k])

\* One stage for each of the clauses ks that the statement has, in their order
KeysOfClauses(statement, ks) ==
  LET present == SelectSeq(ks, LAMBDA k : ClausePresent(statement, k))
  IN  [i \in 1..Len(present) |-> ClauseStageKeys[present[i]]]

\* The clauses of the statement stand in the order of Keywords
InOrder(statement) ==
  \A j \in 1..Len(Keywords) : \A k \in 1..Len(Keywords) :
    (j < k /\ ClausePresent(statement, j) /\ ClausePresent(statement, k))
      => Index(ToUpper(statement), Keywords[j]) < Index(ToUpper(statement), Keywords[k])

\* The text of the LIMIT clause of a statement whose clauses stand in order
LimitText(statement) ==
  TrimSpace(SubSeq(statement, Index(ToUpper(statement), "LIMIT") + Len("LIMIT") + 1,
                   Len(statement)))

\* The text after LIMIT is an integer above zero
PositiveLimit(statement) ==
  /\ ClausePresent(statement, 5)
  /\ IsInt(LimitText(statement))
  /\ IntOf(LimitText(statement)) > 0

\* ParseSQL returned a builder and Execute handed its pipeline to the store
Finalized == parsed.op = "ParseSQL" /\ qb # Nil /\ handed # <<>>

\* C15 as stated: for every statement ParseSQL accepts, the pipeline handed to the
\* store has exactly one stage for each clause the statement has, in the order
\* WHERE Match, GROUP BY Group, HAVING Match, ORDER BY Sort, Limit.
C15_OneStagePerClause ==
  Finalized => StageKeys(handed[1].pipeline) = KeysOfClauses(parsed.s, <<1, 2, 3, 4, 5>>)

\* C15, amended: for every accepted statement whose clauses stand in the order
\* WHERE, GROUP BY, HAVING, ORDER BY, LIMIT, the pipeline handed to the store has
\* exactly one stage for each of WHERE, GROUP BY, HAVING and ORDER BY that the
\* statement has, in that order, followed by one Limit stage exactly when the
\* LIMIT value is above zero.
C15_OneStagePerClauseInOrder ==
  (Finalized /\ InOrder(parsed.s))
    => StageKeys(handed[1].pipeline)
         = KeysOfClauses(parsed.s, <<1, 2, 3, 4>>)
             \o (IF PositiveLimit(parsed.s) THEN <<"$limit">> ELSE <<>>)

C15_Witness ==
  /\ Finalized
  /\ InOrder(parsed.s)
  /\ StageKeys(handed[1].pipeline) = <<"$match", "$group", "$match", "$sort", "$limit">>

\* The statement has no clause after FROM
SelectFromOnly(statement) == \A k \in 1..Len(Keywords) : ~ClausePresent(statement, k)

\* C16: a statement that is only SELECT <fields> FROM <collection> is parsed by
\* ParseSQL without error or crash into a builder of that collection, whose fields
\* are the comma-split SELECT list and whose pipeline holds no Match, Group, Sort,
\* Skip or Limit stage.
C16_SelectFromAlone ==
  (parsed.op = "ParseSQL" /\ SelectFromOnly(parsed.s))
    => /\ err \notin {"panic: index out of range", "invalid LIMIT value"}
       /\ qb # Nil
       /\ qb.Collection = "orders"
       /\ qb.Fields = (IF parsed.s = "select total FROM orders" THEN <<"total">>
                       ELSE <<"field1", "field2">>)
       /\ \A i \in 1..Len(qb.Pipeline) :
            qb.Pipeline[i].Key \notin {"$match", "$group", "$sort", "$skip", "$limit"}

\* C17: ParseSQL accepts a LIMIT clause only when its text is a plain non-negative
\* integer n, and the builder it returns then records the deferred limit n; for
\* any other LIMIT text, a negative number included, it returns the error and no
\* builder.
C17_LimitPlainNonNegative ==
  (parsed.op = "ParseSQL" /\ InOrder(parsed.s) /\ ClausePresent(parsed.s, 5))
    => IF AllDigits(LimitText(parsed.s))
         THEN qb # Nil /\ qb.LimitVal = DigitsValue(LimitText(parsed.s))
         ELSE qb = Nil /\ err = "invalid LIMIT value"

(***************************************************************************)
(* The functions of the package called on their own, as its tests call     *)
(* them.                                                                   *)
(***************************************************************************)
\* The bound of the operator tokens: their length
MaxOperatorLen == 2

OperatorChars == {"=", "!", "<", ">", "+", "-", "*", "/", "%", "&"}

RECURSIVE Words(_, _)
Words(chars, n) ==
  IF n = 0 THEN {""} ELSE Words(chars, n - 1) \cup {w \o c : w \in Words(chars, n - 1), c \in chars}

Operators == Words(OperatorChars, MaxOperatorLen) \cup {"LIKE", "like", "IN", "eq"}

\* A call of a function of the package leaves the builders as they are
OnPackage == UNCHANGED <<qb, handed, err, parsed, example, limitArg, ib>>

\* No function of the package was called yet: what a function returns does not
\* depend on the calls before it, and the model follows one call of a parser
Uncalled == returned.fn = ""

CallMapOperatorToMongo(operator) ==
  /\ returned' = [fn |-> "mapOperatorToMongo", arg |-> operator,
                  value |-> mapOperatorToMongo(operator)]
  /\ OnPackage

NextOperators == \E operator \in Operators : CallMapOperatorToMongo(operator)

SpecOperators == Init /\ [][NextOperators]_vars

\* C18 as stated: mapOperatorToMongo returns a non-empty tag for exactly the six
\* comparison tokens =, !=, <, >, <=, >= and the empty string for every other
\* token.
C18_SixComparisonTokens ==
  returned.fn = "mapOperatorToMongo"
    => (returned.value # "" <=> returned.arg \in {"=", "!=", "<", ">", "<=", ">="})

\* C18, amended: mapOperatorToMongo returns a non-empty tag for exactly the ten
\* tokens =, !=, <, >, <=, >=, +, -, *, / (the six comparisons and the four
\* arithmetic operators), a different tag for each, and the empty string for
\* every other token.
C18_TenTokens ==
  returned.fn = "mapOperatorToMongo"
    => /\ returned.value # "" <=> returned.arg \in {"=", "!=", "<", ">", "<=", ">=", "+", "-", "*", "/"}
       /\ \A operator \in Operators :
            (returned.value # "" /\ mapOperatorToMongo(operator) = returned.value)
              => operator = returned.arg

C18_Witness ==
  returned = [fn |-> "mapOperatorToMongo", arg |-> "/", value |-> "$divide"]

(***************************************************************************)
(* The InsertBuilder: InsertInto, Values and Execute in any order.         *)
(***************************************************************************)
\* The bounds: the rows an InsertBuilder holds and the values of a row
MaxRows == 2
MaxValues == 2

InsertCollections == {"", "orders"}
InsertFields == {<<"field1">>, <<"field1", "field2">>}
ValuesArgs == Lists({GoString("value1"), GoInt(100)}, MaxValues)

\* A call on the InsertBuilder leaves the QueryBuilder as it is
OnInsertBuilder == UNCHANGED <<qb, handed, parsed, example, limitArg>>

CallInsertInto(collection, fields) ==
  /\ ib' = InsertInto(ib, collection, fields)
  /\ err' = ""
  /\ UNCHANGED returned
  /\ OnInsertBuilder

CallValues(values) ==
  /\ Len(ib.ValuesList) < MaxRows
  /\ IF ValuesPanics(ib, values)
       THEN ib' = ib /\ err' = "panic: number of values must match the number of fields"
       ELSE ib' = Values(ib, values) /\ err' = ""
  /\ UNCHANGED returned
  /\ OnInsertBuilder

CallInsertExecute(storeErr) ==
  /\ IF InsertExecutePanics(ib)
       THEN /\ err' = "panic: index out of range"
            /\ returned' = [fn |-> "InsertBuilder.Execute", arg |-> storeErr, value |-> <<>>]
       ELSE /\ err' = InsertExecute(ib, storeErr).err
            /\ returned' = [fn |-> "InsertBuilder.Execute", arg |-> storeErr,
                            value |-> InsertExecute(ib, storeErr).documents]
  /\ UNCHANGED ib
  /\ OnInsertBuilder

NextInsert ==
  \/ \E collection \in InsertCollections, fields \in InsertFields : CallInsertInto(collection, fields)
  \/ \E values \in ValuesArgs : CallValues(values)
  \/ \E storeErr \in {"", "write failed"} : CallInsertExecute(storeErr)

SpecInsert == Init /\ [][NextInsert]_vars

\* C19: Values with a number of values other than the number of fields given to
\* InsertInto is rejected at the call: the call panics and the stored rows are the
\* ones of before the call.
C19_MismatchRejected ==
  [][\A values \in ValuesArgs :
       (CallValues(values) /\ Len(values) # Len(ib.Fields))
         => /\ err' = "panic: number of values must match the number of fields"
            /\ ib'.ValuesList = ib.ValuesList
            /\ ib' = ib]_vars

C19_Witness ==
  /\ err = "panic: number of values must match the number of fields"
  /\ ib.Fields = <<"field1", "field2">>
  /\ ib.ValuesList = <<<<GoString("value1"), GoInt(100)>>>>

(***************************************************************************)
(* parseConditions called on its own.                                      *)
(***************************************************************************)
\* Single comparisons: a field, an operator and a value, separated by spaces or a tab
Singles ==
  {f \o sep \o o \o sep \o v :
     f \in {"price", "status"}, sep \in {" ", "  ", "\t"},
     o \in {"=", "!=", "<", ">", "<=", ">="},
     v \in {"42", "4.5", "'active'", "'42'", "-7", "1e3"}}

\* Two comparisons joined by a connective that is not in upper case
CaseChains ==
  {a \o k \o b : a \in NumberComparisons, b \in NumberComparisons,
                 k \in {" and ", " And ", " or ", " Or "}}

CallParseConditions(conditions) ==
  /\ returned' = [fn |-> "parseConditions", arg |-> conditions,
                  value |-> parseConditions(conditions)]
  /\ OnPackage

NextConditions ==
  \E conditions \in Singles \cup Conditions \cup CaseChains :
    Uncalled /\ CallParseConditions(conditions)

SpecConditions == Init /\ [][NextConditions]_vars

\* Exactly three tokens and no connective
SingleComparison(condition) ==
  /\ Len(Fields(condition)) = 3
  /\ ~Contains(ToUpper(condition), " AND ")
  /\ ~Contains(ToUpper(condition), " OR ")

\* The values of the value tokens: the quotes stripped, then an integer, else a
\* floating point number, else the string
TypedValues ==
  ("42" :> GoInt(42)) @@ ("100" :> GoInt(100)) @@ ("-7" :> GoInt(0 - 7)) @@ ("'42'" :> GoInt(42))
    @@ ("4.5" :> GoFloat64([m |-> 45, e |-> 0 - 1, c |-> "finite"]))
    @@ ("1e3" :> GoFloat64([m |-> 1, e |-> 3, c |-> "finite"]))
    @@ ("'active'" :> GoString("active")) @@ ("x" :> GoString("x"))

\* C20: parseConditions of a single comparison of exactly three whitespace-separated
\* tokens field op value is the comparison of the field by the mapped operator with
\* the value, its single quotes stripped, typed as an integer if it parses as one,
\* else as a floating point number if it parses as one, else as a string.
C20_SingleComparison ==
  (/\ returned.fn = "parseConditions"
   /\ SingleComparison(returned.arg)
   /\ Fields(returned.arg)[3] \in DOMAIN TypedValues)
    => returned.value = M1(Fields(returned.arg)[1],
                           M1(mapOperatorToMongo(Fields(returned.arg)[2]),
                              TypedValues[Fields(returned.arg)[3]]))

C20_Witness ==
  /\ returned.fn = "parseConditions"
  /\ returned.arg = "status = 'active'"
  /\ returned.value = M1("status", M1("$eq", GoString("active")))

\* The comparisons of the chains and what each is parsed to on its own
ExpectedComparison ==
  ("price > 100" :> M1("price", M1("$gt", GoInt(100))))
    @@ ("stock > 50" :> M1("stock", M1("$gt", GoInt(50))))
    @@ ("rating >= 4.5" :> M1("rating", M1("$gte", GoFloat64([m |-> 45, e |-> 0 - 1, c |-> "finite"]))))
    @@ ("status = 'active'" :> M1("status", M1("$eq", GoString("active"))))

ExpectedEach(cs) == GoSlice([i \in 1..Len(cs) |-> ExpectedComparison[cs[i]]])

\* C21: for n >= 2 three-token comparisons joined by AND (by OR, with no AND),
\* parseConditions returns the And (the Or) node of exactly n children, the i-th
\* one the parse of the i-th comparison on its own.
C21_ChildPerComparison ==
  returned.fn = "parseConditions"
    => \A cs \in Lists(ChainComparisons, MaxComparisons) :
         Len(cs) >= 2
           => /\ returned.arg = JoinStrings(cs, " AND ")
                   => returned.value = M1("$and", ExpectedEach(cs))
              /\ returned.arg = JoinStrings(cs, " OR ")
                   => returned.value = M1("$or", ExpectedEach(cs))

C21_Witness ==
  /\ returned.fn = "parseConditions"
  /\ returned.arg = "price > 100 AND stock > 50"
  /\ returned.value = M1("$and", GoSlice(<<M1("price", M1("$gt", GoInt(100))),
                                           M1("stock", M1("$gt", GoInt(50)))>>))

\* C22: comparisons joined by and / And (or / Or) in any letter case give the And
\* (the Or) node, with one child for each comparison, that the same condition
\* gives with the connective in upper case.
C22_AnyLetterCase ==
  returned.fn = "parseConditions"
    => \A a \in NumberComparisons, b \in NumberComparisons :
         /\ returned.arg \in {a \o " and " \o b, a \o " And " \o b}
              => returned.value = M1("$and", ExpectedEach(<<a, b>>))
         /\ returned.arg \in {a \o " or " \o b, a \o " Or " \o b}
              => returned.value = M1("$or", ExpectedEach(<<a, b>>))

\* The child of a part of a condition with AND and OR: the comparison of a part
\* that is one comparison, the empty predicate of a part that comparisons joined
\* by OR make
ExpectedPart(group) == IF Len(group) = 1 THEN ExpectedComparison[group[1]] ELSE EmptyM

\* The sequences of groups of one or more comparisons, of n comparisons at most in
\* all
RECURSIVE Groupings(_)
Groupings(n) ==
  {<<>>} \cup
  UNION {{<<g>> \o rest : g \in {l \in Lists(ChainComparisons, k) : Len(l) = k},
                          rest \in Groupings(n - k)} : k \in 1..n}

\* The conditions with AND and OR: groups joined by AND, the comparisons of a group
\* joined by OR, each with the And node of one child for each group
MixedConditions ==
  {[text |-> JoinStrings([i \in 1..Len(gs) |-> JoinStrings(gs[i], " OR ")], " AND "),
    value |-> M1("$and", GoSlice([i \in 1..Len(gs) |-> ExpectedPart(gs[i])]))] :
     gs \in {x \in Groupings(MaxComparisons) :
               Len(x) >= 2 /\ \E i \in 1..Len(x) : Len(x[i]) >= 2}}

ComparisonsOf(predicate) ==
  IF "$and" \in DOMAIN predicate THEN Range(predicate["$and"].slice)
  ELSE IF "$or" \in DOMAIN predicate THEN Range(predicate["$or"].slice)
  ELSE {predicate}

\* C24: in every predicate parseConditions returns, each comparison carries a mapped
\* operator that is not empty; "name LIKE x" gives no comparison with an empty
\* operator.
C24_OperatorNeverEmpty ==
  returned.fn = "parseConditions"
    => \A comparison \in ComparisonsOf(returned.value) :
         \A field \in DOMAIN comparison : "" \notin DOMAIN comparison[field]

(***************************************************************************)
(* parseExpression and parseAlias called on their own.                     *)
(***************************************************************************)
LeftOperands == {"SUM(amount)", "COUNT(*)", "price", "sum(amount)"}
RightOperands == {"5000", "4.5", "COUNT(*)", "total"}
ExpressionOperators == {">", ">=", "=", "<", "+", "/", "==", "LIKE"}

Expressions ==
  {l \o " " \o o \o " " \o r : l \in LeftOperands, o \in ExpressionOperators, r \in RightOperands}
  \cup {"SUM(amount) / COUNT(*) > 1000", "price>100", "price != 100", "price", ""}

\* The two results of parseExpression, the predicate and the error, are one value
CallParseExpression(expression) ==
  /\ returned' = [fn |-> "parseExpression", arg |-> expression,
                  value |-> parseExpression(expression)]
  /\ OnPackage

NextExpressions ==
  \E expression \in Expressions : Uncalled /\ CallParseExpression(expression)

SpecExpressions == Init /\ [][NextExpressions]_vars

\* What each operand resolves to: a number to the literal, SUM( to the sum of the
\* enclosed field, COUNT( to the count, anything else to the field
ExpectedOperand ==
  ("SUM(amount)" :> M1("$sum", GoString("$amount")))
    @@ ("COUNT(*)" :> M1("$sum", GoInt(1)))
    @@ ("price" :> GoString("$price"))
    @@ ("total" :> GoString("$total"))
    @@ ("sum(amount)" :> M1("$sum", GoString("$amount")))
    @@ ("5000" :> GoFloat64([m |-> 5, e |-> 3, c |-> "finite"]))
    @@ ("4.5" :> GoFloat64([m |-> 45, e |-> 0 - 1, c |-> "finite"]))

ComparisonTags ==
  (">" :> "$gt") @@ (">=" :> "$gte") @@ ("=" :> "$eq") @@ ("<" :> "$lt") @@ ("<=" :> "$lte")
    @@ ("!=" :> "$ne")

\* C25: parseExpression of operand op operand resolves each operand on its own, a
\* number to the literal, SUM( to the sum of the enclosed field, COUNT( to the
\* count, anything else to the field, and fails exactly when the operator does
\* not map; "SUM(amount) > 5000" gives the comparison of the sum of amount with
\* 5000 by gt.
C25_OperandsResolved ==
  returned.fn = "parseExpression"
    => \A l \in LeftOperands, r \in RightOperands, o \in {">", ">=", "=", "<", "==", "LIKE"} :
         returned.arg = l \o " " \o o \o " " \o r
           => IF o \in DOMAIN ComparisonTags
                THEN returned.value =
                       [m |-> M1("$expr", M1(ComparisonTags[o],
                                GoSlice(<<ExpectedOperand[l], ExpectedOperand[r]>>))),
                        err |-> ""]
                ELSE returned.value.err # ""

\* C26: whenever parseExpression succeeds the top-level operator of its predicate
\* is a comparison, never an arithmetic operator; "SUM(amount) / COUNT(*) > 1000"
\* compares the quotient with 1000 by gt.
C26_ComputedComparison ==
  (returned.fn = "parseExpression" /\ returned.value.err = "")
    => /\ DOMAIN returned.value.m["$expr"] \subseteq {"$eq", "$ne", "$gt", "$lt", "$gte", "$lte"}
       /\ returned.arg = "SUM(amount) / COUNT(*) > 1000"
            => returned.value.m =
                 M1("$expr", M1("$gt",
                   GoSlice(<<M1("$divide", GoSlice(<<M1("$sum", GoString("$amount")),
                                                     M1("$sum", GoInt(1))>>)),
                             GoFloat64([m |-> 1, e |-> 3, c |-> "finite"])>>)))

AliasExpressions == {"SUM(amount)", "COUNT(*)", "MAX(x)", "price", "sum(amount)"}
AliasKeywords == {" AS ", " as ", " As ", " aS "}
AliasNames == {"total", "cnt", "_id", "m", "Total"}

AliasSpecs ==
  {e \o k \o a : e \in AliasExpressions, k \in AliasKeywords, a \in AliasNames}
  \cup AliasExpressions \cup {"", "alias", "SUM(amount) AS total AS sum"}

\* parseAlias returns the alias, or panics
CallParseAlias(field) ==
  /\ IF parseAliasPanics(field)
       THEN /\ err' = "panic: index out of range"
            /\ returned' = [fn |-> "parseAlias", arg |-> field, value |-> ""]
       ELSE /\ err' = ""
            /\ returned' = [fn |-> "parseAlias", arg |-> field, value |-> parseAlias(field)]
  /\ UNCHANGED <<qb, handed, parsed, example, limitArg, ib>>

NextAliases == \E field \in AliasSpecs : CallParseAlias(field)

SpecAliases == Init /\ [][NextAliases]_vars

\* C27: of a field spec expr AS alias with AS in any letter case parseAlias returns
\* the alias without failing; of a spec with no AS it returns the spec unchanged.
C27_AliasAnyLetterCase ==
  returned.fn = "parseAlias"
    => /\ \A e \in AliasExpressions, k \in AliasKeywords, a \in AliasNames :
            returned.arg = e \o k \o a
              => err # "panic: index out of range" /\ returned.value = a
       /\ returned.arg \in AliasExpressions
            => err # "panic: index out of range" /\ returned.value = returned.arg

(***************************************************************************)
(* Execute called again, and the stages emitted at the call, checked on    *)
(* Spec; the rows of the InsertBuilder, checked on SpecInsert.             *)
(***************************************************************************)
\* How many stages of the pipeline have the key
CountKey(pipeline, key) == Cardinality({i \in 1..Len(pipeline) : pipeline[i].Key = key})

\* C28: two calls of Execute on a builder with a collection, a recorded offset and
\* a recorded limit above zero hand the same stages to the store, and the
\* pipeline of the builder is those stages: finalization adds its Skip and its
\* Limit once.
C28_ExecuteTwiceSame ==
  (Len(handed) = 2 /\ qb.OffsetVal > 0 /\ qb.LimitVal > 0)
    => /\ handed[2].pipeline = handed[1].pipeline
       /\ qb.Pipeline = handed[1].pipeline

\* C29: with no deferred limit from Limit, Execute hands the store as many Limit
\* stages as the pipeline held before it, the one of AggregationLimit(n) and no
\* other; with no deferred offset from Offset it adds no Skip stage to the one of
\* AggregationOffset(n).
C29_ImmediateNotDeferred ==
  [][handed' # handed
       => /\ limitArg = 0
               => CountKey(handed'[Len(handed')].pipeline, "$limit") = CountKey(qb.Pipeline, "$limit")
          /\ qb.OffsetVal = 0
               => CountKey(handed'[Len(handed')].pipeline, "$skip") = CountKey(qb.Pipeline, "$skip")]_vars

\* C30: every stored row has as many values as the current field list, and
\* Execute never reads past the end of a row.
C30_RowsMatchFields ==
  /\ \A r \in 1..Len(ib.ValuesList) : Len(ib.ValuesList[r]) = Len(ib.Fields)
  /\ err # "panic: index out of range"

====
